---- MODULE Spec2Model ----
(***************************************************************************)
(* Model of run_gemini.py: a script that initialises the Vertex AI SDK,    *)
(* binds a GenerativeModel handle, sends one fixed prompt with             *)
(* generate_content and prints the response text under a two-line header.  *)
(*                                                                         *)
(* The script is straight-line code; every call into the client library    *)
(* either returns or raises, and an exception is never caught, so it ends  *)
(* the interpreter with status 1.  The remote service and the client       *)
(* library are the environment: the record svc fixes, for one execution,   *)
(* the outcome of each call.                                               *)
(***************************************************************************)
EXTENDS Integers, Sequences, FiniteSets

VARIABLES
    pc,          \* the statement the interpreter executes next
    session,     \* process-wide SDK configuration written by vertexai.init
    model,       \* the module global `model`
    prompt,      \* the module global `prompt`
    response,    \* the module global `response`
    stdout,      \* what the process has written to standard output
    exitStatus,  \* exit status of the process, once it has ended
    invoked,     \* the operations called so far in this execution, in order
    raised,      \* the operation whose exception ended the execution
    net,         \* generate-content requests sent to the remote service
    svc,         \* how library and service answer during this execution
    run,         \* number of the current execution of the script
    runs         \* record of the executions that have ended

vars == <<pc, session, model, prompt, response, stdout, exitStatus,
          invoked, raised, net, svc, run, runs>>

----------------------------------------------------------------------------
(* Bounds *)

MaxRuns == 2

----------------------------------------------------------------------------
(* Literals of the script *)

PROJECT_ID == "optimum-rock-467801-f1"

LOCATION == "us-central1"

MODEL_NAME == "gemini-2.5-pro"

PROMPT == "\nWrite a short, professional email to a client named Alex to confirm the meeting for next Tuesday.\nMention that you're looking forward to discussing the new project.\n"

HEADER == "Model Response:"

RULE == "---------------"

NL == "\n"

None == "<unbound>"

\* before vertexai.init has run the SDK holds no project and no location
NoSession == [project |-> None, location |-> None]

\* before generate_content has returned there is no response
NoResponse == [text |-> None, blocked |-> FALSE]

\* the process has not ended
NotExited == -1

----------------------------------------------------------------------------
(* Environment: outcomes of the calls into the client library *)

Texts == {"Hello!", "Hi Alex,\nconfirming our meeting next Tuesday.", ""}

Services ==
    [ init   : {"ok", "raise"},
      select : {"ok", "raise"},
      gen    : {"ok", "blocked", "raise", "hang"},
      text   : Texts ]

----------------------------------------------------------------------------
(* Helpers *)

Range(s) == { s[i] : i \in 1..Len(s) }

\* faulty variant of PrintLine: the newline is dropped
PrintNoNewline(out, s) == out \o <<s>>

\* print(s): the string followed by a newline
PrintLine(out, s) == out \o <<s, NL>>

\* faulty variant of Request: the prompt is also kept and resent as history
RequestWithHistory(s, m, p) ==
    [ session |-> s, model |-> m, contents |-> <<p, p>> ]

\* the request generate_content(p) makes through handle m under session s
Request(s, m, p) ==
    [ session |-> s, model |-> m, contents |-> <<p>> ]

\* faulty variant of OnError: the exception is swallowed and the script
\* goes on with the next statement
OnErrorContinue(op) ==
    CASE op = "initialize"  -> "select"
      [] op = "selectModel" -> "prompt"
      [] op = "generate"    -> "print1"
      [] OTHER              -> "done"

\* faulty variant of OnError: the failed operation is tried again
OnErrorRetry(op) ==
    CASE op = "initialize"  -> "init"
      [] op = "selectModel" -> "select"
      [] op = "generate"    -> "generate"
      [] OTHER              -> "print3"

\* where control goes when operation op raises: nothing catches it
OnError(op) == "failed"

\* an uncaught exception in op: traceback, interpreter exits with status 1
Raise(op) ==
    /\ pc' = OnError(op)
    /\ raised' = op
    /\ exitStatus' = 1

----------------------------------------------------------------------------
Init ==
    /\ pc = "init"
    /\ session = NoSession
    /\ model = None
    /\ prompt = None
    /\ response = NoResponse
    /\ stdout = <<>>
    /\ exitStatus = NotExited
    /\ invoked = <<>>
    /\ raised = None
    /\ net = <<>>
    /\ svc \in Services
    /\ run = 1
    /\ runs = <<>>

\* line 8: vertexai.init(project=PROJECT_ID, location=LOCATION)
Initialize ==
    /\ pc = "init"
    /\ invoked' = Append(invoked, "initialize")
    /\ IF svc.init = "ok"
         THEN /\ session' = [project |-> PROJECT_ID, location |-> LOCATION]
              /\ pc' = "select"
              /\ UNCHANGED <<raised, exitStatus>>
         ELSE /\ Raise("initialize")
              /\ UNCHANGED session
    /\ UNCHANGED <<model, prompt, response, stdout, net, svc, run, runs>>

\* faulty variant of SelectModel: a failure is recorded but the script goes
\* on to the generate call
SelectModelDeferred ==
    /\ pc = "select"
    /\ invoked' = Append(invoked, "selectModel")
    /\ IF svc.select = "ok"
         THEN /\ model' = MODEL_NAME
              /\ UNCHANGED <<raised, exitStatus>>
         ELSE /\ raised' = "selectModel"
              /\ exitStatus' = 1
              /\ UNCHANGED model
    /\ pc' = "prompt"
    /\ UNCHANGED <<session, prompt, response, stdout, net, svc, run, runs>>

\* faulty variant of SelectModel: binding the handle rewrites the session
SelectModelReinit ==
    /\ pc = "select"
    /\ invoked' = Append(invoked, "selectModel")
    /\ IF svc.select = "ok"
         THEN /\ model' = MODEL_NAME
              /\ session' = [project |-> PROJECT_ID, location |-> "global"]
              /\ pc' = "prompt"
              /\ UNCHANGED <<raised, exitStatus>>
         ELSE /\ Raise("selectModel")
              /\ UNCHANGED <<model, session>>
    /\ UNCHANGED <<prompt, response, stdout, net, svc, run, runs>>

\* line 11: model = GenerativeModel("gemini-2.5-pro")
SelectModel ==
    /\ pc = "select"
    /\ invoked' = Append(invoked, "selectModel")
    /\ IF svc.select = "ok"
         THEN /\ model' = MODEL_NAME
              /\ pc' = "prompt"
              /\ UNCHANGED <<raised, exitStatus>>
         ELSE /\ Raise("selectModel")
              /\ UNCHANGED model
    /\ UNCHANGED <<session, prompt, response, stdout, net, svc, run, runs>>

\* lines 14-17: prompt = """..."""
DefinePrompt ==
    /\ pc = "prompt"
    /\ prompt' = PROMPT
    /\ pc' = "generate"
    /\ UNCHANGED <<session, model, response, stdout, exitStatus, invoked,
                   raised, net, svc, run, runs>>

\* faulty variant of GenerateCall: the header is printed before the call
GenerateCallAfterHeader ==
    /\ pc = "generate"
    /\ invoked' = Append(invoked, "generate")
    /\ net' = Append(net, Request(session, model, prompt))
    /\ stdout' = PrintLine(stdout, HEADER)
    /\ pc' = "waiting"
    /\ UNCHANGED <<session, model, prompt, response, exitStatus,
                   raised, svc, run, runs>>

\* line 20, the call: model.generate_content(prompt) sends the request and
\* blocks
GenerateCall ==
    /\ pc = "generate"
    /\ invoked' = Append(invoked, "generate")
    /\ net' = Append(net, Request(session, model, prompt))
    /\ pc' = "waiting"
    /\ UNCHANGED <<session, model, prompt, response, stdout, exitStatus,
                   raised, svc, run, runs>>

\* line 20, the return: response = <the service's answer>
GenerateReturn ==
    /\ pc = "waiting"
    /\ svc.gen \in {"ok", "blocked"}
    /\ response' = [text |-> svc.text, blocked |-> (svc.gen = "blocked")]
    /\ pc' = "print1"
    /\ UNCHANGED <<session, model, prompt, stdout, exitStatus, invoked,
                   raised, net, svc, run, runs>>

\* faulty variant of GenerateRaise: a local timeout also ends a call the
\* service never answers
GenerateRaiseOnTimeout ==
    /\ pc = "waiting"
    /\ svc.gen \in {"raise", "hang"}
    /\ Raise("generate")
    /\ UNCHANGED <<session, model, prompt, response, stdout, invoked,
                   net, svc, run, runs>>

\* line 20, the call raises (quota, network failure, ...)
GenerateRaise ==
    /\ pc = "waiting"
    /\ svc.gen = "raise"
    /\ Raise("generate")
    /\ UNCHANGED <<session, model, prompt, response, stdout, invoked,
                   net, svc, run, runs>>

\* line 23: print("Model Response:")
PrintHeader ==
    /\ pc = "print1"
    /\ stdout' = PrintLine(stdout, HEADER)
    /\ pc' = "print2"
    /\ UNCHANGED <<session, model, prompt, response, exitStatus, invoked,
                   raised, net, svc, run, runs>>

\* line 24: print("---------------")
PrintRule ==
    /\ pc = "print2"
    /\ stdout' = PrintLine(stdout, RULE)
    /\ pc' = "print3"
    /\ UNCHANGED <<session, model, prompt, response, exitStatus, invoked,
                   raised, net, svc, run, runs>>

\* line 25: print(response.text); the attribute is read first, and the
\* library raises there when the response carries no text.  The script ends
\* after this statement, with status 0.
PrintText ==
    /\ pc = "print3"
    /\ IF response.blocked
         THEN /\ Raise("render")
              /\ UNCHANGED stdout
         ELSE /\ stdout' = PrintLine(stdout, response.text)
              /\ pc' = "done"
              /\ exitStatus' = 0
              /\ UNCHANGED raised
    /\ UNCHANGED <<session, model, prompt, response, invoked, net, svc,
                   run, runs>>

\* faulty variant of Rerun: the output of the earlier execution is carried
\* into the new one
RerunAppending ==
    /\ pc \in {"done", "failed"}
    /\ run < MaxRuns
    /\ runs' = Append(runs, [svc |-> svc, stdout |-> stdout,
                             exitStatus |-> exitStatus])
    /\ run' = run + 1
    /\ svc' \in Services
    /\ pc' = "init"
    /\ session' = NoSession
    /\ model' = None
    /\ prompt' = None
    /\ response' = NoResponse
    /\ stdout' = stdout
    /\ exitStatus' = NotExited
    /\ invoked' = <<>>
    /\ raised' = None
    /\ net' = <<>>

\* the script is executed again, in a new process; the service may answer
\* differently this time
Rerun ==
    /\ pc \in {"done", "failed"}
    /\ run < MaxRuns
    /\ runs' = Append(runs, [svc |-> svc, stdout |-> stdout,
                             exitStatus |-> exitStatus])
    /\ run' = run + 1
    /\ svc' \in Services
    /\ pc' = "init"
    /\ session' = NoSession
    /\ model' = None
    /\ prompt' = None
    /\ response' = NoResponse
    /\ stdout' = <<>>
    /\ exitStatus' = NotExited
    /\ invoked' = <<>>
    /\ raised' = None
    /\ net' = <<>>

Step ==
    \/ Initialize
    \/ SelectModel
    \/ DefinePrompt
    \/ GenerateCall
    \/ GenerateReturn
    \/ GenerateRaise
    \/ PrintHeader
    \/ PrintRule
    \/ PrintText

Next ==
    \/ Step
    \/ Rerun

Spec == Init /\ [][Next]_vars

\* the interpreter keeps executing the script's statements
FairSpec == Spec /\ WF_vars(Step)

----------------------------------------------------------------------------
(* Properties *)

Full == <<"initialize", "selectModel", "generate">>

SessionConfig == [project |-> PROJECT_ID, location |-> LOCATION]

Terminated == pc \in {"done", "failed"}

Count(op) == Cardinality({ i \in 1..Len(invoked) : invoked[i] = op })

\* C1 as stated: every execution, also one that failed at any step, has
\* issued exactly one prompt by the time it ends.
C1_ExactlyOnePromptAlways ==
    Terminated => Len(net) = 1

\* C1 amended: an execution issues at most one prompt; exactly one once
\* generate has been called, none when initialize or selectModel failed;
\* the request carries that one prompt and no history.
C1_AtMostOnePrompt ==
    /\ Len(net) <= 1
    /\ (Len(net) = 1) <=> ("generate" \in Range(invoked))
    /\ \A i \in 1..Len(net) : net[i].contents = <<PROMPT>>
    /\ raised \in {"initialize", "selectModel"} => net = <<>>
    /\ pc = "done" => Len(net) = 1

C1_Witness ==
    /\ pc = "done"
    /\ Len(net) = 1
    /\ net[1].contents = <<PROMPT>>

\* C2: generate is called only after selectModel returned; an execution in
\* which selectModel raised never sends a generate-content request.
C2_GenerateOnlyAfterSelect ==
    /\ raised = "selectModel" =>
          /\ net = <<>>
          /\ "generate" \notin Range(invoked)
    /\ ("generate" \in Range(invoked) \/ net # <<>>) =>
          /\ model = MODEL_NAME
          /\ svc.select = "ok"
          /\ Len(invoked) >= 3
          /\ invoked[2] = "selectModel"
          /\ invoked[3] = "generate"

C2_Witness ==
    /\ pc = "failed"
    /\ raised = "selectModel"
    /\ svc.select = "raise"
    /\ net = <<>>

\* C3: when the generate call raises, the exception ends the execution and
\* nothing, not even the header, has been written to standard output.
C3_NoOutputWhenGenerateFails ==
    /\ raised = "generate" =>
          /\ stdout = <<>>
          /\ response = NoResponse
          /\ pc = "failed"
          /\ exitStatus = 1
    /\ svc.gen = "raise" => stdout = <<>>

C3_Witness ==
    /\ raised = "generate"
    /\ svc.gen = "raise"
    /\ Len(net) = 1
    /\ stdout = <<>>

\* C5: an exception in initialize, selectModel or generate is not caught:
\* the execution ends with status 1 and no later step runs; status 0 occurs
\* only when all three calls and the three prints succeeded.
C5_FailFast ==
    /\ raised # None <=> pc = "failed"
    /\ pc = "failed" =>
          /\ exitStatus = 1
          /\ ~ ENABLED Step
    /\ raised = "initialize" =>
          /\ invoked = <<"initialize">>
          /\ session = NoSession /\ model = None /\ prompt = None
          /\ net = <<>> /\ stdout = <<>>
    /\ raised = "selectModel" =>
          /\ invoked = <<"initialize", "selectModel">>
          /\ model = None /\ prompt = None
          /\ net = <<>> /\ stdout = <<>>
    /\ raised = "generate" =>
          /\ invoked = Full
          /\ response = NoResponse /\ stdout = <<>>
    /\ exitStatus = 0 <=> pc = "done"
    /\ exitStatus = 0 =>
          /\ raised = None
          /\ invoked = Full
          /\ svc.init = "ok" /\ svc.select = "ok" /\ svc.gen = "ok"
          /\ Len(net) = 1
          /\ Len(stdout) = 6

C5_Witness ==
    /\ pc = "failed"
    /\ raised = "initialize"
    /\ exitStatus = 1

\* C6: on success standard output is exactly the two header lines and then
\* the text generate returned, each newline-terminated; at every moment the
\* output is a prefix of that, so the header precedes the text.
C6_OutputFormat ==
    /\ pc = "done" =>
          /\ stdout = <<HEADER, NL, RULE, NL, svc.text, NL>>
          /\ response.text = svc.text
    /\ \/ stdout = <<>>
       \/ stdout = <<HEADER, NL>>
       \/ stdout = <<HEADER, NL, RULE, NL>>
       \/ stdout = <<HEADER, NL, RULE, NL, svc.text, NL>>

C6_Witness ==
    /\ pc = "done"
    /\ exitStatus = 0
    /\ stdout = <<"Model Response:", "\n", "---------------", "\n", "Hello!", "\n">>

\* C7: nothing is retried: initialize, selectModel and generate are each
\* called at most once per execution, and after generate raised no second
\* generate call can be made.
C7_NoRetry ==
    /\ \A op \in Range(Full) : Count(op) <= 1
    /\ Len(net) <= Count("generate")
    /\ raised = "generate" => ~ ENABLED GenerateCall
    /\ raised # None => ~ ENABLED Step

C7_Witness ==
    /\ pc = "failed"
    /\ raised = "generate"
    /\ invoked = Full

C9_SessionWrittenOnce ==
    /\ [][ /\ session' # session =>
                \/ pc = "init" /\ session = NoSession /\ session' = SessionConfig
                \/ run' # run
           /\ prompt' # prompt =>
                \/ pc = "prompt" /\ prompt = None /\ prompt' = PROMPT
                \/ run' # run ]_vars
    /\ [](\A i \in 1..Len(net) :
             /\ net[i].session = SessionConfig
             /\ net[i].contents = <<prompt>>
             /\ prompt = PROMPT)
    /\ []((pc # "init" /\ raised # "initialize") => session = SessionConfig)

C9_Witness ==
    /\ pc = "done"
    /\ session = SessionConfig
    /\ net[1].session = SessionConfig
    /\ net[1].contents = <<PROMPT>>

Responsive == svc.gen # "hang"

Blocked == pc = "waiting" /\ svc.gen = "hang"

\* C10: if the service answers the generate call (with a response or an
\* error) the execution eventually terminates; if it never answers, the
\* process stays blocked in the call for ever.
C10_Termination ==
    /\ Responsive ~> Terminated
    /\ [][Blocked => Blocked']_vars

C10_Witness ==
    /\ Blocked
    /\ Len(net) = 1
    /\ exitStatus = NotExited

====
